---- MODULE Spec2Model ----
(***************************************************************************)
(* Space Invaders (src/SpaceInvaders/main.cpp): the game loop of main(),   *)
(* the GLFW key callback and the helpers they call, as a state machine.    *)
(*                                                                         *)
(* One iteration of the game loop is split at the comments of the source   *)
(* into the steps                                                          *)
(*   draw -> death -> bullets -> move -> fire -> poll -> draw ...          *)
(* and pc names the step that runs next.  The key callback runs only       *)
(* inside glfwPollEvents (pc = "poll").                                    *)
(*                                                                         *)
(* size_t values are modelled as integers; every place where an unsigned   *)
(* subtraction or a signed/unsigned mix could wrap is written out as a     *)
(* case split (see SizeGE, SizeLT, Removed).                               *)
(***************************************************************************)
EXTENDS Integers, Sequences, FiniteSets, TLC

(***************************************************************************)
(* Bounds of the model (the environment's behaviour, not the program's).   *)
(***************************************************************************)
\* key/window events delivered to the program over a whole run
MaxEvents == 4
\* events are delivered only by the first InputPolls calls of glfwPollEvents
InputPolls == 3
\* largest |move_dir| the player-movement step is tried with (StepSpec)
MaxAccum == 7
\* buffers of 1..MaxBuf by 1..MaxBuf pixels (DrawSpec)
MaxBuf == 3
\* sprites of 1..MaxSprite by 1..MaxSprite pixels, with every mask (DrawSpec)
MaxSprite == 2
\* draw positions 0..MaxPos either way (DrawSpec)
MaxPos == 2
\* texts of up to MaxText characters (DrawSpec)
MaxText == 3

(***************************************************************************)
(* Program constants.                                                      *)
(***************************************************************************)
MAX_BULLETS == 128
buffer_width == 224
buffer_height == 256
num_aliens == 55
ALIEN_DEAD == 0
ALIEN_TYPE_A == 1
ALIEN_TYPE_B == 2
ALIEN_TYPE_C == 3
num_frames == 2
frame_duration == 10
DEATH_FRAMES == 10
BULLET_DIR == 2
PLAYER_Y == 32
PLAYER_LIFE == 3
\* the text spritesheet starts at the character ' ' and holds 65 glyphs
FIRST_GLYPH == 32
NUM_GLYPHS == 65

bullet_sprite == [width |-> 1, height |-> 3]
alien_death_sprite == [width |-> 13, height |-> 7]
player_sprite == [width |-> 11, height |-> 7]
\* alien_sprites[0..5]: two frames for each of the types A, B, C
alien_sprites ==
  [i \in 0..5 |-> IF i \in {0, 1} THEN [width |-> 8, height |-> 8]
                  ELSE IF i \in {2, 3} THEN [width |-> 11, height |-> 8]
                  ELSE [width |-> 12, height |-> 8]]

text_spritesheet == [width |-> 5, height |-> 7]

\* game.width, game.height
game_width == buffer_width
game_height == buffer_height

Keys == {"ESCAPE", "RIGHT", "LEFT", "SPACE", "OTHER"}
KeyActions == {"PRESS", "RELEASE", "REPEAT"}

VARIABLES
  pc,              \* the step of the game loop that runs next
  game_running,    \* global
  should_close,    \* glfwWindowShouldClose(window)
  move_dir,        \* global
  fire_pressed,    \* global
  score,           \* global
  aliens,          \* game.aliens[0..54]: [x, y, type]
  death_counters,  \* death_counters[0..54]
  num_bullets,     \* game.num_bullets
  bullets,         \* game.bullets[0..num_bullets-1]: [x, y, dir]
  player,          \* game.player: [x, y, life]
  alien_animation, \* alien_animation[0..2].time
  drawn,           \* what the last draw put on screen for each alien
  explosions,      \* per alien: frames in which its explosion was drawn
  since_death,     \* per alien: frames drawn since it became DEAD
  releases,        \* fire-key releases delivered since the last fire step
  last,            \* observations of the steps of the running tick
  events,          \* events delivered so far (MaxEvents once no more will come)
  polls,           \* calls of glfwPollEvents so far (counted up to InputPolls)
  keys,            \* the move keys as the keyboard has them: held or not
  canvas           \* a buffer and a text under buffer_draw_sprite/buffer_draw_text

vars == <<pc, game_running, should_close, move_dir, fire_pressed, score, aliens,
          death_counters, num_bullets, bullets, player, alien_animation, drawn,
          explosions, since_death, releases, last, events, polls, keys, canvas>>

AlienIdx == 0..(num_aliens - 1)

(***************************************************************************)
(* size_t arithmetic.  A mathematical value v < 0 stands for the size_t    *)
(* v + 2^64, which is larger than every bound it is compared with here.    *)
(***************************************************************************)
SizeGE(v, bound) == v < 0 \/ v >= bound
SizeLT(v, bound) == v >= 0 /\ v < bound

(***************************************************************************)
(* sprite_overlap_check: all operands are sums of non-negative size_t.     *)
(***************************************************************************)
\* a slip: only the horizontal extent is compared
sprite_overlap_check_columns_only(sp_a, x_a, y_a, sp_b, x_b, y_b) ==
  /\ x_a < x_b + sp_b.width
  /\ x_a + sp_a.width > x_b

\* a slip: only the vertical extent is compared
sprite_overlap_check_rows_only(sp_a, x_a, y_a, sp_b, x_b, y_b) ==
  /\ y_a < y_b + sp_b.height
  /\ y_a + sp_a.height > y_b

sprite_overlap_check(sp_a, x_a, y_a, sp_b, x_b, y_b) ==
  /\ x_a < x_b + sp_b.width
  /\ x_a + sp_a.width > x_b
  /\ y_a < y_b + sp_b.height
  /\ y_a + sp_a.height > y_b

(***************************************************************************)
(* buffer_draw_sprite (lines 182-192) and buffer_draw_text (lines 223-238)  *)
(* as functions of their arguments.  A buffer is [width, height, data],    *)
(* data a function on 0..width*height-1; a sprite likewise, its data the   *)
(* mask.  A write past the end of data would show as a new index of data.  *)
(* x, y, xi, yi are size_t: sprite.height - 1 + y - yi is never negative   *)
(* (yi < sprite.height), and the sums stay far below 2^64 here.            *)
(***************************************************************************)
\* a slip: the column is not tested
PixelDrawn_no_width_test(buffer, sprite, x, y, xi, yi) ==
  /\ sprite.data[yi * sprite.width + xi] # 0
  /\ SizeLT(sprite.height - 1 + y - yi, buffer.height)

\* the condition of the "if" for the mask bit (xi, yi)
PixelDrawn(buffer, sprite, x, y, xi, yi) ==
  /\ sprite.data[yi * sprite.width + xi] # 0
  /\ SizeLT(sprite.height - 1 + y - yi, buffer.height)
  /\ SizeLT(x + xi, buffer.width)

\* the index written for the mask bit (xi, yi)
PixelIndex(buffer, sprite, x, y, xi, yi) ==
  (sprite.height - 1 + y - yi) * buffer.width + (x + xi)

\* every write stores the same color, so the order of the two loops does not
\* show in the result
buffer_draw_sprite(buffer, sprite, x, y, color) ==
  LET written == {PixelIndex(buffer, sprite, x, y, b[1], b[2]) :
                    b \in {c \in (0..(sprite.width - 1)) \X (0..(sprite.height - 1)) :
                             PixelDrawn(buffer, sprite, x, y, c[1], c[2])}}
  IN [buffer EXCEPT !.data = [p \in (DOMAIN buffer.data) \cup written |->
                                IF p \in written THEN color ELSE buffer.data[p]]]

\* *charp as an int: char is signed or unsigned, as the platform has it
CharValue(byte, signed) == IF signed /\ byte >= 128 THEN byte - 256 ELSE byte

\* the conversion of an int to char
ToChar(v, signed) == IF signed THEN ((v + 128) % 256) - 128 ELSE v % 256

\* a slip: a character without a glyph moves the cursor like any other
TextChar_skip_advances(t, text, i, y, signed) ==
  LET character == ToChar(CharValue(text[i], signed) - FIRST_GLYPH, signed) IN
  IF character < 0 \/ character >= NUM_GLYPHS
  THEN [t EXCEPT !.xp = t.xp + text_spritesheet.width + 1]
  ELSE [xp |-> t.xp + text_spritesheet.width + 1,
        calls |-> Append(t.calls, [k |-> i - 1, glyph |-> character, x |-> t.xp, y |-> y])]

\* the body of the loop for the character text[i]; t is [xp, calls], calls
\* the calls of buffer_draw_sprite made so far: the glyph passed and where
TextChar(t, text, i, y, signed) ==
  LET character == ToChar(CharValue(text[i], signed) - FIRST_GLYPH, signed) IN
  IF character < 0 \/ character >= NUM_GLYPHS THEN t
  ELSE [xp |-> t.xp + text_spritesheet.width + 1,
        calls |-> Append(t.calls, [k |-> i - 1, glyph |-> character, x |-> t.xp, y |-> y])]

RECURSIVE TextLoop(_, _, _, _, _)
TextLoop(t, text, i, y, signed) ==
  IF i > Len(text) THEN t
  ELSE TextLoop(TextChar(t, text, i, y, signed), text, i + 1, y, signed)

\* the calls of buffer_draw_sprite that buffer_draw_text makes
buffer_draw_text(text, x, y, signed) ==
  TextLoop([xp |-> x, calls |-> <<>>], text, 1, y, signed).calls

(***************************************************************************)
(* Construction (main, up to the game loop).                               *)
(***************************************************************************)
\* a slip: the types counted up from the bottom row
InitAlienType_from_bottom(yi) == yi \div 2 + 1

\* alien.type = (5 - yi) / 2 + 1
InitAlienType(yi) == (5 - yi) \div 2 + 1

InitAlien(yi, xi) ==
  LET type == InitAlienType(yi)
      sprite == alien_sprites[2 * (type - 1)]
  IN [x |-> 16 * xi + 20 + (alien_death_sprite.width - sprite.width) \div 2,
      y |-> 17 * yi + 128,
      type |-> type]

InitAliens == [ai \in AlienIdx |-> InitAlien(ai \div 11, ai % 11)]

InitPlayer == [x |-> 112 - 5, y |-> PLAYER_Y, life |-> PLAYER_LIFE]

\* game.bullets restricted to its first n slots
NoBullets == [bi \in {} |-> [x |-> 0, y |-> 0, dir |-> 0]]

\* nothing observed yet in the running tick
NoObs ==
  [hits |-> <<>>, exits |-> <<>>, wrapped |-> FALSE, fire |-> "idle", releases |-> 0,
   advanced |-> <<>>, stale |-> <<>>, frames |-> <<>>]

\* neither move key is held, and every event so far came in its turn
NoKeys == [right |-> FALSE, left |-> FALSE, paired |-> TRUE]

\* the keyboard is not followed, or no longer: a press or release came out of
\* turn
Unpaired == [right |-> FALSE, left |-> FALSE, paired |-> FALSE]

\* no buffer under test: the game's own buffer is kept as drawn (see DrawFrame)
NoCanvas ==
  [op |-> "none", done |-> FALSE,
   buffer |-> [width |-> 0, height |-> 0, data |-> <<>>], before |-> <<>>,
   sprite |-> [width |-> 0, height |-> 0, data |-> <<>>],
   x |-> 0, y |-> 0, color |-> 0, text |-> <<>>, signed |-> TRUE, calls |-> <<>>]

Init ==
  /\ pc = "draw"
  /\ game_running = TRUE
  /\ should_close = FALSE
  /\ move_dir = 0
  /\ fire_pressed = FALSE
  /\ score = 0
  /\ aliens = InitAliens
  /\ death_counters = [ai \in AlienIdx |-> DEATH_FRAMES]
  /\ num_bullets = 0
  /\ bullets = NoBullets
  /\ player = InitPlayer
  /\ alien_animation = [i \in 0..2 |-> 0]
  /\ drawn = [ai \in AlienIdx |-> "none"]
  /\ explosions = [ai \in AlienIdx |-> 0]
  /\ since_death = [ai \in AlienIdx |-> 0]
  /\ releases = 0
  /\ last = NoObs
  /\ events = 0
  /\ polls = 0
  /\ keys = Unpaired
  /\ canvas = NoCanvas

(***************************************************************************)
(* The game loop: condition, drawing, animation update (lines 641-702).    *)
(* Of the frame buffer the model keeps, per alien, which sprite the draw   *)
(* loop passed to buffer_draw_sprite.                                      *)
(***************************************************************************)
Min(a, b) == IF a < b THEN a ELSE b

\* a slip: the loop tests the window alone
LoopCondition_window_only == ~should_close

\* while (!glfwWindowShouldClose(window) && game_running)
LoopCondition == ~should_close /\ game_running

\* a slip: the draw loop without its test of the death counter
DrawnSprite_ignores_counter(ai) ==
  IF aliens[ai].type = ALIEN_DEAD THEN "death"
  ELSE IF alien_animation[aliens[ai].type - 1] \div frame_duration = 0 THEN "frame0"
  ELSE "frame1"

\* the sprite the draw loop draws for alien ai
DrawnSprite(ai) ==
  IF death_counters[ai] = 0 THEN "none"
  ELSE IF aliens[ai].type = ALIEN_DEAD THEN "death"
  ELSE IF alien_animation[aliens[ai].type - 1] \div frame_duration = 0 THEN "frame0"
  ELSE "frame1"

\* a slip: the time is compared before it is incremented
AnimationUpdate_late(time) ==
  IF time = num_frames * frame_duration THEN 0 ELSE time + 1

\* ++time; if (time == num_frames * frame_duration) time = 0 (loop is true)
AnimationUpdate(time) ==
  IF time + 1 = num_frames * frame_duration THEN 0 ELSE time + 1

DrawFrame ==
  /\ pc = "draw"
  /\ LoopCondition
  /\ drawn' = [ai \in AlienIdx |-> DrawnSprite(ai)]
  /\ explosions' = [ai \in AlienIdx |->
        IF DrawnSprite(ai) = "death"
        THEN Min(explosions[ai] + 1, DEATH_FRAMES + 1) ELSE explosions[ai]]
  /\ since_death' = [ai \in AlienIdx |->
        IF aliens[ai].type = ALIEN_DEAD
        THEN Min(since_death[ai] + 1, DEATH_FRAMES + 2) ELSE since_death[ai]]
  /\ alien_animation' = [i \in 0..2 |-> AnimationUpdate(alien_animation[i])]
  /\ pc' = "death"
  /\ UNCHANGED <<game_running, should_close, move_dir, fire_pressed, score, aliens,
                 death_counters, num_bullets, bullets, player, releases, last, events,
                 polls,
                 keys, canvas>>

ExitLoop ==
  /\ pc = "draw"
  /\ ~LoopCondition
  /\ pc' = "done"
  /\ UNCHANGED <<game_running, should_close, move_dir, fire_pressed, score, aliens,
                 death_counters, num_bullets, bullets, player, alien_animation,
                 drawn, explosions, since_death, releases, last, events, polls,
                 keys, canvas>>

(***************************************************************************)
(* Death counters (lines 704-710).                                         *)
(***************************************************************************)
\* a slip: the counter runs for live aliens too
DecrementCounter_any_type(alien, counter) ==
  IF counter # 0 THEN counter - 1 ELSE counter

DecrementCounter(alien, counter) ==
  IF alien.type = ALIEN_DEAD /\ counter # 0 THEN counter - 1 ELSE counter

DecrementDeathCounters ==
  /\ pc = "death"
  /\ death_counters' =
        [ai \in AlienIdx |-> DecrementCounter(aliens[ai], death_counters[ai])]
  /\ pc' = "bullets"
  /\ UNCHANGED <<game_running, should_close, move_dir, fire_pressed, score, aliens,
                 num_bullets, bullets, player, alien_animation, drawn, explosions,
                 since_death, releases, last, events, polls,
                 keys, canvas>>

(***************************************************************************)
(* Update bullets (lines 712-746).  g is the part of the program state     *)
(* the loop works on: bullets, num_bullets, aliens, score; with it travel  *)
(* the observations hits and exits, and wrapped, which is set when         *)
(* num_bullets is decremented at 0 (2^64 - 1 in the program, after a read  *)
(* of game.bullets[-1]).                                                   *)
(*                                                                         *)
(* Inside the loop g.bullets keeps every slot the loop started with, so a  *)
(* slot at or above num_bullets still holds what was last written to it.   *)
(*                                                                         *)
(* Further observations in g: origin[bi], the slot in which the bullet now *)
(* in slot bi started the step; advances[b], how often the bullet that     *)
(* started in slot b has had its y advanced; pass, the number of the       *)
(* running alien scan; frames, the frame index the scans use for each      *)
(* alien type; stale, the overlap tests that read a slot at or above       *)
(* num_bullets (the first one after each hit).                             *)
(***************************************************************************)
\* game.bullets[bi] = game.bullets[game.num_bullets - 1]; game.num_bullets--;
Removed(g, bi) ==
  IF g.num_bullets = 0 THEN [g EXCEPT !.wrapped = TRUE]
  ELSE [g EXCEPT !.bullets[bi] = g.bullets[g.num_bullets - 1],
                 !.origin[bi] = g.origin[g.num_bullets - 1],
                 !.num_bullets = g.num_bullets - 1]

\* a slip: always the first frame
FrameIndex_first(time, type) == 0

\* current_frame = animation.time / animation.frame_duration (line 729)
FrameIndex(time, type) == time[type - 1] \div frame_duration

\* the sprite of the alien's current animation frame
CurrentFrame(time, alien) ==
  alien_sprites[2 * (alien.type - 1) + FrameIndex(time, alien.type)]

\* a slip: the score grows with the type number
HitScore_by_type(s, type) == s + 10 * type

\* a slip: the operands of the subtraction swapped
HitScore_swapped(s, type) == s + 10 * (type - 4)

\* score += 10 * (4 - game.aliens[ai].type)
HitScore(s, type) == s + 10 * (4 - type)

\* a slip: a hit takes the alien down one type
KilledAlien_demoted(alien, alien_sprite) ==
  [alien EXCEPT !.type = alien.type - 1,
                !.x = alien.x - (alien_death_sprite.width - alien_sprite.width) \div 2]

\* the alien after lines 737-738
KilledAlien(alien, alien_sprite) ==
  [alien EXCEPT !.type = ALIEN_DEAD,
                !.x = alien.x - (alien_death_sprite.width - alien_sprite.width) \div 2]

\* a slip: line 738 left out, the dead alien stays where it was
Hit_alien_in_place(g, bi, ai, alien_sprite) ==
  LET alien == g.aliens[ai]
      g1 == [g EXCEPT !.score = HitScore(g.score, alien.type),
                      !.aliens[ai] = [alien EXCEPT !.type = ALIEN_DEAD]]
      g2 == Removed(g1, bi)
  IN [g2 EXCEPT !.hits = Append(g.hits,
         [ai |-> ai, bi |-> bi, pass |-> g.pass, type |-> alien.type,
          bullet |-> g.bullets[bi],
          box |-> [x |-> alien.x, y |-> alien.y,
                   w |-> alien_sprite.width, h |-> alien_sprite.height],
          score_before |-> g.score, score_after |-> g2.score,
          count_before |-> g.num_bullets, count_after |-> g2.num_bullets])]

\* a slip: the score is read after the type was set to ALIEN_DEAD
Hit_scored_when_dead(g, bi, ai, alien_sprite) ==
  LET alien == g.aliens[ai]
      g1 == [g EXCEPT !.score = HitScore(g.score, ALIEN_DEAD),
                      !.aliens[ai] = KilledAlien(alien, alien_sprite)]
      g2 == Removed(g1, bi)
  IN [g2 EXCEPT !.hits = Append(g.hits,
         [ai |-> ai, bi |-> bi, pass |-> g.pass, type |-> alien.type,
          bullet |-> g.bullets[bi],
          box |-> [x |-> alien.x, y |-> alien.y,
                   w |-> alien_sprite.width, h |-> alien_sprite.height],
          score_before |-> g.score, score_after |-> g2.score,
          count_before |-> g.num_bullets, count_after |-> g2.num_bullets])]

\* the body of "if (overlap)" (lines 736-740)
Hit(g, bi, ai, alien_sprite) ==
  LET alien == g.aliens[ai]
      g1 == [g EXCEPT !.score = HitScore(g.score, alien.type),
                      !.aliens[ai] = KilledAlien(alien, alien_sprite)]
      g2 == Removed(g1, bi)
  IN [g2 EXCEPT !.hits = Append(g.hits,
         [ai |-> ai, bi |-> bi, pass |-> g.pass, type |-> alien.type,
          bullet |-> g.bullets[bi],
          box |-> [x |-> alien.x, y |-> alien.y,
                   w |-> alien_sprite.width, h |-> alien_sprite.height],
          score_before |-> g.score, score_after |-> g2.score,
          count_before |-> g.num_bullets, count_after |-> g2.num_bullets])]

\* the test of alien ai against slot bi in the inner loop (lines 725-733)
Overlaps(g, time, bi, ai) ==
  /\ g.aliens[ai].type # ALIEN_DEAD
  /\ sprite_overlap_check(
       bullet_sprite, g.bullets[bi].x, g.bullets[bi].y,
       CurrentFrame(time, g.aliens[ai]), g.aliens[ai].x, g.aliens[ai].y)

\* the inner loop goes on after a hit, from alien ai on: if an alien is left
\* to test and bi is no longer below num_bullets, the test reads a slot that
\* holds no active bullet
StaleTest(g, bi, ai) ==
  LET left == {a \in ai..(num_aliens - 1) : g.aliens[a].type # ALIEN_DEAD} IN
  IF g.wrapped \/ bi < g.num_bullets \/ left = {} THEN g
  ELSE [g EXCEPT !.stale = Append(g.stale,
          [bi |-> bi, count |-> g.num_bullets,
           ai |-> CHOOSE a \in left : \A b \in left : a <= b])]

\* the inner loop over the aliens, from alien ai on (lines 724-743): the
\* aliens up to the next overlap leave g as it is, and the "continue" after
\* a hit continues the loop with the next alien and the same bi
RECURSIVE AlienScan(_, _, _, _)
AlienScan(g, time, bi, ai) ==
  IF g.wrapped \/ \A a \in ai..(num_aliens - 1) : ~Overlaps(g, time, bi, a) THEN g
  ELSE LET a == CHOOSE a \in ai..(num_aliens - 1) :
                  /\ Overlaps(g, time, bi, a)
                  /\ \A b \in ai..(a - 1) : ~Overlaps(g, time, bi, b)
       IN AlienScan(StaleTest(Hit(g, bi, a, CurrentFrame(time, g.aliens[a])), bi, a + 1),
                    time, bi, a + 1)

\* game.bullets[bi].y += game.bullets[bi].dir
Advanced(g, bi) ==
  [g EXCEPT !.bullets[bi].y = g.bullets[bi].y + g.bullets[bi].dir,
            !.advances[g.origin[bi]] = g.advances[g.origin[bi]] + 1]

\* an alien scan starts: it reads the animation times as they are now
ScanStarted(g, time) ==
  [g EXCEPT !.pass = g.pass + 1,
            !.frames = [type \in 1..3 |-> FrameIndex(time, type)]]

\* a slip: the top of the buffer is not tested
OutOfBounds_bottom_only(y) == SizeLT(y, bullet_sprite.height)

\* the bullet has left the buffer (line 716)
OutOfBounds(y) == SizeGE(y, game_height) \/ SizeLT(y, bullet_sprite.height)

\* the outer loop, from slot bi on (lines 713-746)
RECURSIVE BulletLoop(_, _, _)
BulletLoop(g, time, bi) ==
  IF ~(bi < g.num_bullets) \/ g.wrapped THEN g
  ELSE LET g1 == Advanced(g, bi) IN
    IF OutOfBounds(g1.bullets[bi].y)
    THEN BulletLoop([Removed(g1, bi) EXCEPT
                       !.exits = Append(g.exits, [bi |-> bi, y |-> g1.bullets[bi].y])],
                    time, bi)
    ELSE BulletLoop(AlienScan(ScanStarted(g1, time), time, bi, 0), time, bi + 1)

\* what the step stores, given the loop's result g
UpdateBulletsTo(g) ==
  /\ bullets' = [bi \in 0..(g.num_bullets - 1) |-> g.bullets[bi]]
  /\ num_bullets' = g.num_bullets
  /\ aliens' = g.aliens
  /\ score' = g.score
  /\ last' = [last EXCEPT
        !.hits = g.hits, !.exits = g.exits, !.wrapped = g.wrapped,
        !.advanced = [bi \in 0..(g.num_bullets - 1) |-> g.advances[g.origin[bi]]],
        !.stale = g.stale, !.frames = g.frames]
  /\ since_death' = [ai \in AlienIdx |->
        IF g.aliens[ai].type = ALIEN_DEAD /\ aliens[ai].type # ALIEN_DEAD
        THEN 0 ELSE since_death[ai]]
  /\ pc' = IF g.wrapped THEN "undefined" ELSE "move"

UpdateBullets ==
  /\ pc = "bullets"
  /\ \E g \in {BulletLoop([bullets |-> bullets, num_bullets |-> num_bullets,
                           aliens |-> aliens, score |-> score,
                           hits |-> <<>>, exits |-> <<>>, wrapped |-> FALSE,
                           origin |-> [bi \in 0..(num_bullets - 1) |-> bi],
                           advances |-> [bi \in 0..(num_bullets - 1) |-> 0],
                           pass |-> 0, stale |-> <<>>, frames |-> <<>>],
                          alien_animation, 0)} : UpdateBulletsTo(g)
  /\ UNCHANGED <<game_running, should_close, move_dir, fire_pressed, death_counters,
                 player, alien_animation, drawn, explosions, releases, events, polls,
                 keys, canvas>>

(***************************************************************************)
(* Player movement (lines 748-759).  player_move_dir is an int; in         *)
(* x + width + player_move_dir it is converted to size_t, so a negative    *)
(* sum wraps (SizeGE).  (int)x + player_move_dir is signed.                *)
(***************************************************************************)
\* a slip: no clamp at the left edge
MovedPlayerX_no_left_clamp(x, dir) ==
  LET player_move_dir == 2 * dir IN
  IF player_move_dir = 0 THEN x
  ELSE IF SizeGE(x + player_sprite.width + player_move_dir, game_width)
       THEN game_width - player_sprite.width
  ELSE x + player_move_dir

\* a slip: the displacement is the accumulator itself, not twice it
MovedPlayerX_single_step(x, dir) ==
  LET player_move_dir == dir IN
  IF player_move_dir = 0 THEN x
  ELSE IF SizeGE(x + player_sprite.width + player_move_dir, game_width)
       THEN game_width - player_sprite.width
  ELSE IF x + player_move_dir <= 0 THEN 0
  ELSE x + player_move_dir

MovedPlayerX(x, dir) ==
  LET player_move_dir == 2 * dir IN
  IF player_move_dir = 0 THEN x
  ELSE IF SizeGE(x + player_sprite.width + player_move_dir, game_width)
       THEN game_width - player_sprite.width
  ELSE IF x + player_move_dir <= 0 THEN 0
  ELSE x + player_move_dir

PlayerMovement ==
  /\ pc = "move"
  /\ player' = [player EXCEPT !.x = MovedPlayerX(player.x, move_dir)]
  /\ pc' = "fire"
  /\ UNCHANGED <<game_running, should_close, move_dir, fire_pressed, score, aliens,
                 death_counters, num_bullets, bullets, alien_animation, drawn,
                 explosions, since_death, releases, last, events, polls,
                 keys, canvas>>

(***************************************************************************)
(* Bullet fired? (lines 761-768)                                           *)
(***************************************************************************)
\* a slip: the bullet leaves from the player's left edge
NewBullet_left_edge(p) ==
  [x |-> p.x, y |-> p.y + player_sprite.height, dir |-> BULLET_DIR]

NewBullet(p) ==
  [x |-> p.x + player_sprite.width \div 2,
   y |-> p.y + player_sprite.height,
   dir |-> BULLET_DIR]

\* a slip: off by one at the capacity
CanFire_off_by_one(pressed, n) == pressed /\ n <= MAX_BULLETS

CanFire(pressed, n) == pressed /\ n < MAX_BULLETS

BulletFired ==
  /\ pc = "fire"
  /\ IF CanFire(fire_pressed, num_bullets)
     THEN /\ bullets' = [bi \in 0..num_bullets |->
                           IF bi = num_bullets THEN NewBullet(player) ELSE bullets[bi]]
          /\ num_bullets' = num_bullets + 1
     ELSE UNCHANGED <<bullets, num_bullets>>
  /\ fire_pressed' = FALSE
  /\ releases' = 0
  /\ last' = [last EXCEPT !.releases = releases,
                         !.fire = IF CanFire(fire_pressed, num_bullets) THEN "spawned"
                                  ELSE IF fire_pressed THEN "dropped" ELSE "idle"]
  /\ pc' = "poll"
  /\ UNCHANGED <<game_running, should_close, move_dir, score, aliens, death_counters,
                 player, alien_animation, drawn, explosions, since_death, events,
                 polls,
                 keys, canvas>>

(***************************************************************************)
(* glfwPollEvents (line 770): GLFW calls key_callback (lines 69-88) for    *)
(* each key event, and records a request to close the window.              *)
(***************************************************************************)
\* a slip: the release of LEFT copied from its press
KeyMoveDir_left_release(key, action, dir) ==
  IF key = "RIGHT" THEN (IF action = "PRESS" THEN dir + 1
                         ELSE IF action = "RELEASE" THEN dir - 1 ELSE dir)
  ELSE IF key = "LEFT" THEN (IF action = "PRESS" THEN dir - 1
                             ELSE IF action = "RELEASE" THEN dir - 1 ELSE dir)
  ELSE dir

KeyMoveDir(key, action, dir) ==
  IF key = "RIGHT" THEN (IF action = "PRESS" THEN dir + 1
                         ELSE IF action = "RELEASE" THEN dir - 1 ELSE dir)
  ELSE IF key = "LEFT" THEN (IF action = "PRESS" THEN dir - 1
                             ELSE IF action = "RELEASE" THEN dir + 1 ELSE dir)
  ELSE dir

KeyRunning(key, action, running) ==
  IF key = "ESCAPE" /\ action = "PRESS" THEN FALSE ELSE running

KeyFire(key, action, pressed) ==
  IF key = "SPACE" /\ action = "RELEASE" THEN TRUE ELSE pressed

\* the keyboard behind the events, where it is followed (KeySpec): a key is
\* held from its PRESS to its RELEASE; paired is TRUE while every PRESS of a
\* move key found it free and every RELEASE found it held
KeyHeld(key, action, k) ==
  IF ~k.paired \/ key \notin {"RIGHT", "LEFT"} \/ action = "REPEAT" THEN k
  ELSE LET held == IF key = "RIGHT" THEN k.right ELSE k.left IN
       IF held = (action = "PRESS") THEN Unpaired
       ELSE IF key = "RIGHT" THEN [k EXCEPT !.right = (action = "PRESS")]
       ELSE [k EXCEPT !.left = (action = "PRESS")]

CanDeliver == pc = "poll" /\ events < MaxEvents /\ polls < InputPolls

key_callback(key, action) ==
  /\ CanDeliver
  /\ game_running' = KeyRunning(key, action, game_running)
  /\ move_dir' = KeyMoveDir(key, action, move_dir)
  /\ fire_pressed' = KeyFire(key, action, fire_pressed)
  /\ releases' = IF key = "SPACE" /\ action = "RELEASE" THEN releases + 1 ELSE releases
  /\ keys' = KeyHeld(key, action, keys)
  /\ events' = events + 1
  /\ UNCHANGED <<pc, should_close, score, aliens, death_counters, num_bullets, bullets,
                 player, alien_animation, drawn, explosions, since_death, last, polls,
                 canvas>>

KeyEvent == \E key \in Keys, action \in KeyActions : key_callback(key, action)

WindowClose ==
  /\ CanDeliver
  /\ should_close' = TRUE
  /\ events' = events + 1
  /\ UNCHANGED <<pc, game_running, move_dir, fire_pressed, score, aliens,
                 death_counters, num_bullets, bullets, player, alien_animation,
                 drawn, explosions, since_death, releases, last, polls,
                 keys, canvas>>

PollReturn ==
  /\ pc = "poll"
  /\ pc' = "draw"
  /\ polls' = Min(polls + 1, InputPolls)
  /\ events' = IF polls' = InputPolls THEN MaxEvents ELSE events
  /\ UNCHANGED <<game_running, should_close, move_dir, fire_pressed, score, aliens,
                 death_counters, num_bullets, bullets, player, alien_animation,
                 drawn, explosions, since_death, releases, last, keys, canvas>>

Next ==
  \/ DrawFrame
  \/ ExitLoop
  \/ DecrementDeathCounters
  \/ UpdateBullets
  \/ PlayerMovement
  \/ BulletFired
  \/ KeyEvent
  \/ WindowClose
  \/ PollReturn

Spec == Init /\ [][Next]_vars

(***************************************************************************)
(* The player-movement and fire steps as functions of their inputs: the    *)
(* two steps are run once from every player position, every accumulator    *)
(* value up to MaxAccum either way, with and without a pending fire, on an *)
(* empty, an almost full and a full pool.                                  *)
(***************************************************************************)
PoolSizes == {0, MAX_BULLETS - 1, MAX_BULLETS}

PoolOf(n) == [bi \in 0..(n - 1) |-> NewBullet(InitPlayer)]

StepInit ==
  /\ pc = "move"
  /\ game_running = TRUE
  /\ should_close = FALSE
  /\ move_dir \in -MaxAccum..MaxAccum
  /\ fire_pressed \in BOOLEAN
  /\ score = 0
  /\ aliens = InitAliens
  /\ death_counters = [ai \in AlienIdx |-> DEATH_FRAMES]
  /\ num_bullets \in PoolSizes
  /\ bullets = PoolOf(num_bullets)
  /\ \E x \in 0..(buffer_width - player_sprite.width) :
        player = [InitPlayer EXCEPT !.x = x]
  /\ alien_animation = [i \in 0..2 |-> 0]
  /\ drawn = [ai \in AlienIdx |-> "none"]
  /\ explosions = [ai \in AlienIdx |-> 0]
  /\ since_death = [ai \in AlienIdx |-> 0]
  /\ releases = IF fire_pressed THEN 1 ELSE 0
  /\ last = NoObs
  /\ events = MaxEvents
  /\ polls = InputPolls
  /\ keys = NoKeys
  /\ canvas = NoCanvas

StepNext == PlayerMovement \/ BulletFired

StepSpec == StepInit /\ [][StepNext]_vars

(***************************************************************************)
(* The game with the keyboard followed and only the move keys used: every  *)
(* order of presses, releases and repeats of RIGHT and LEFT, over the      *)
(* polls of several ticks.                                                 *)
(***************************************************************************)
KeyInit ==
  /\ pc = "draw"
  /\ game_running = TRUE
  /\ should_close = FALSE
  /\ move_dir = 0
  /\ fire_pressed = FALSE
  /\ score = 0
  /\ aliens = InitAliens
  /\ death_counters = [ai \in AlienIdx |-> DEATH_FRAMES]
  /\ num_bullets = 0
  /\ bullets = NoBullets
  /\ player = InitPlayer
  /\ alien_animation = [i \in 0..2 |-> 0]
  /\ drawn = [ai \in AlienIdx |-> "none"]
  /\ explosions = [ai \in AlienIdx |-> 0]
  /\ since_death = [ai \in AlienIdx |-> 0]
  /\ releases = 0
  /\ last = NoObs
  /\ events = 0
  /\ polls = 0
  /\ keys = NoKeys
  /\ canvas = NoCanvas

MoveKeyEvent ==
  \E key \in {"RIGHT", "LEFT"}, action \in KeyActions : key_callback(key, action)

KeyNext ==
  \/ DrawFrame
  \/ DecrementDeathCounters
  \/ UpdateBullets
  \/ PlayerMovement
  \/ BulletFired
  \/ MoveKeyEvent
  \/ PollReturn

KeySpec == KeyInit /\ [][KeyNext]_vars

(***************************************************************************)
(* The game with a move key held or none: whole ticks without further      *)
(* input, started from every player position and every accumulator value   *)
(* that one key at a time gives.                                           *)
(***************************************************************************)
WalkInit ==
  /\ pc = "draw"
  /\ game_running = TRUE
  /\ should_close = FALSE
  /\ move_dir \in -1..1
  /\ fire_pressed = FALSE
  /\ score = 0
  /\ aliens = InitAliens
  /\ death_counters = [ai \in AlienIdx |-> DEATH_FRAMES]
  /\ num_bullets = 0
  /\ bullets = NoBullets
  /\ \E x \in 0..(buffer_width - player_sprite.width) :
        player = [InitPlayer EXCEPT !.x = x]
  /\ alien_animation = [i \in 0..2 |-> 0]
  /\ drawn = [ai \in AlienIdx |-> "none"]
  /\ explosions = [ai \in AlienIdx |-> 0]
  /\ since_death = [ai \in AlienIdx |-> 0]
  /\ releases = 0
  /\ last = NoObs
  /\ events = MaxEvents
  /\ polls = InputPolls
  /\ keys = Unpaired
  /\ canvas = NoCanvas

WalkNext ==
  \/ DrawFrame
  \/ DecrementDeathCounters
  \/ UpdateBullets
  \/ PlayerMovement
  \/ BulletFired
  \/ PollReturn

WalkSpec == WalkInit /\ [][WalkNext]_vars

(***************************************************************************)
(* The game later on: the player has shot the rows nearest to it, rows     *)
(* 0..k-1 of every column, one alien after the other, the explosions are   *)
(* over, and it stands four steps left of its start, where its bullets fly *)
(* up through every alien of column 5, with an empty pool.  From there     *)
(* only the fire key is used.  The aliens and the score of the start are   *)
(* what the collision scan's own assignments make of the initial grid.     *)
(***************************************************************************)
\* the number of rows shot: none (the true start) up to all five
ClearedRows == 0..5

ClearedAliens(k) ==
  [ai \in AlienIdx |->
     IF ai \div 11 < k
     THEN KilledAlien(InitAliens[ai], alien_sprites[2 * (InitAliens[ai].type - 1)])
     ELSE InitAliens[ai]]

\* the score after the aliens 0..n-1 were hit
RECURSIVE ClearedScore(_)
ClearedScore(n) ==
  IF n = 0 THEN 0 ELSE HitScore(ClearedScore(n - 1), InitAliens[n - 1].type)

\* the player's x after n movement steps with LEFT held, from its start
RECURSIVE PlayerAfterLeft(_)
PlayerAfterLeft(n) ==
  IF n = 0 THEN InitPlayer.x ELSE MovedPlayerX(PlayerAfterLeft(n - 1), -1)

ClearedInit ==
  /\ pc = "draw"
  /\ game_running = TRUE
  /\ should_close = FALSE
  /\ move_dir = 0
  /\ fire_pressed = FALSE
  /\ \E k \in ClearedRows :
        /\ aliens = ClearedAliens(k)
        /\ score = ClearedScore(11 * k)
  /\ death_counters = [ai \in AlienIdx |->
        IF aliens[ai].type = ALIEN_DEAD THEN 0 ELSE DEATH_FRAMES]
  /\ num_bullets = 0
  /\ bullets = NoBullets
  /\ player = [InitPlayer EXCEPT !.x = PlayerAfterLeft(4)]
  /\ alien_animation = [i \in 0..2 |-> 0]
  /\ drawn = [ai \in AlienIdx |-> "none"]
  /\ explosions = [ai \in AlienIdx |->
        IF aliens[ai].type = ALIEN_DEAD THEN DEATH_FRAMES ELSE 0]
  /\ since_death = [ai \in AlienIdx |->
        IF aliens[ai].type = ALIEN_DEAD THEN DEATH_FRAMES + 2 ELSE 0]
  /\ releases = 0
  /\ last = NoObs
  /\ events = 0
  /\ polls = 0
  /\ keys = Unpaired
  /\ canvas = NoCanvas

FireKeyEvent == key_callback("SPACE", "RELEASE")

ClearedNext ==
  \/ DrawFrame
  \/ DecrementDeathCounters
  \/ UpdateBullets
  \/ PlayerMovement
  \/ BulletFired
  \/ FireKeyEvent
  \/ PollReturn

ClearedSpec == ClearedInit /\ [][ClearedNext]_vars

(***************************************************************************)
(* The two drawing functions as functions of their inputs: one call of     *)
(* buffer_draw_sprite for every small buffer, sprite, mask and position,   *)
(* and one call of buffer_draw_text for every short text over TextBytes.   *)
(***************************************************************************)
\* bytes below ' ', the first and last glyphs, one between, the first byte
\* after the last glyph, and a byte above 127
TextBytes == {10, 31, 32, 65, 96, 97, 200}

Texts == UNION {[1..n -> TextBytes] : n \in 0..MaxText}

Sizes(max) == (1..max) \X (1..max)

\* every pixel starts with a value of its own, none of them the color drawn
CanvasBuffer(w, h) == [width |-> w, height |-> h, data |-> [p \in 0..(w * h - 1) |-> 2 + p]]

Sprites ==
  UNION {{[width |-> ss[1], height |-> ss[2], data |-> mask] :
            mask \in [0..(ss[1] * ss[2] - 1) -> {0, 1}]} : ss \in Sizes(MaxSprite)}

SpriteCanvases ==
  {[NoCanvas EXCEPT !.op = "sprite", !.buffer = CanvasBuffer(bs[1], bs[2]),
                    !.before = CanvasBuffer(bs[1], bs[2]).data,
                    !.sprite = sprite, !.x = pos[1], !.y = pos[2], !.color = 1] :
     bs \in Sizes(MaxBuf), pos \in (0..MaxPos) \X (0..MaxPos), sprite \in Sprites}

TextCanvases ==
  {[NoCanvas EXCEPT !.op = "text", !.text = text, !.x = x, !.y = 7,
                    !.signed = signed, !.color = 1] :
     text \in Texts, x \in 0..MaxPos, signed \in BOOLEAN}

DrawInit ==
  /\ pc = "draw"
  /\ game_running = TRUE
  /\ should_close = FALSE
  /\ move_dir = 0
  /\ fire_pressed = FALSE
  /\ score = 0
  /\ aliens = InitAliens
  /\ death_counters = [ai \in AlienIdx |-> DEATH_FRAMES]
  /\ num_bullets = 0
  /\ bullets = NoBullets
  /\ player = InitPlayer
  /\ alien_animation = [i \in 0..2 |-> 0]
  /\ drawn = [ai \in AlienIdx |-> "none"]
  /\ explosions = [ai \in AlienIdx |-> 0]
  /\ since_death = [ai \in AlienIdx |-> 0]
  /\ releases = 0
  /\ last = NoObs
  /\ events = 0
  /\ polls = 0
  /\ keys = NoKeys
  /\ canvas \in SpriteCanvases \cup TextCanvases

DrawSpriteCall ==
  /\ canvas.op = "sprite" /\ ~canvas.done
  /\ canvas' = [canvas EXCEPT
        !.buffer = buffer_draw_sprite(canvas.buffer, canvas.sprite, canvas.x, canvas.y,
                                      canvas.color),
        !.done = TRUE]
  /\ UNCHANGED <<pc, game_running, should_close, move_dir, fire_pressed, score, aliens,
                 death_counters, num_bullets, bullets, player, alien_animation, drawn,
                 explosions, since_death, releases, last, events, polls, keys>>

DrawTextCall ==
  /\ canvas.op = "text" /\ ~canvas.done
  /\ canvas' = [canvas EXCEPT
        !.calls = buffer_draw_text(canvas.text, canvas.x, canvas.y, canvas.signed),
        !.done = TRUE]
  /\ UNCHANGED <<pc, game_running, should_close, move_dir, fire_pressed, score, aliens,
                 death_counters, num_bullets, bullets, player, alien_animation, drawn,
                 explosions, since_death, releases, last, events, polls, keys>>

DrawNext == DrawSpriteCall \/ DrawTextCall

DrawSpec == DrawInit /\ [][DrawNext]_vars

(***************************************************************************)
(* Properties.                                                             *)
(***************************************************************************)
LiveTypes == {ALIEN_TYPE_A, ALIEN_TYPE_B, ALIEN_TYPE_C}

Hits == {last.hits[i] : i \in 1..Len(last.hits)}
Exits == {last.exits[i] : i \in 1..Len(last.exits)}

\* C1: in every reachable state the active bullet count is within
\* [0, MAX_BULLETS]; it is never decremented at zero (no wrap below zero),
\* and the pool holds exactly that many bullets.
BulletCountInRange ==
  /\ num_bullets \in 0..MAX_BULLETS
  /\ ~last.wrapped
  /\ pc # "undefined"
  /\ DOMAIN bullets = 0..(num_bullets - 1)

\* C1 witness: a bullet has left the buffer while another is still in the
\* pool, after an earlier bullet was removed by a collision.
BulletsRemovedBothWays ==
  /\ pc = "move"
  /\ Len(last.exits) > 0
  /\ num_bullets > 0
  /\ score > 0

\* C2: the player's x is within [0, buffer_width - player_width] = [0, 213]
\* after the player-movement step, from every prior position in that range
\* and every value of the move accumulator within MaxAccum of zero.
PlayerXInBounds ==
  /\ player.x >= 0
  /\ player.x <= buffer_width - player_sprite.width
  /\ buffer_width - player_sprite.width = 213

\* C2 witness: the movement step has run with an accumulator below -1 and
\* left the player at the right edge: the unsigned sum x + width + 2*move_dir
\* wrapped.
PlayerMovedWithWrappedSum ==
  /\ pc = "fire"
  /\ move_dir < -1
  /\ player.x = buffer_width - player_sprite.width

\* C3: every hit of the collision step is an overlap of the bullet's box with
\* the box of a live alien's frame (bx < ax+aw, bx+bw > ax, by < ay+ah,
\* by+bh > ay), adds exactly 10*(4-T) to score for the alien's type T, leaves
\* the alien DEAD and takes the bullet out of the pool, whose size drops by
\* one; after the step no bullet of the pool overlaps a live alien.  The
\* overlap test is true of a bullet at (50,200) and a type B box (48,198,11,8),
\* and a type B hit is worth 20.
HitEffect(h) ==
  /\ h.type \in LiveTypes
  /\ h.bullet.x < h.box.x + h.box.w
  /\ h.bullet.x + bullet_sprite.width > h.box.x
  /\ h.bullet.y < h.box.y + h.box.h
  /\ h.bullet.y + bullet_sprite.height > h.box.y
  /\ h.score_after = h.score_before + 10 * (4 - h.type)
  /\ h.count_after = h.count_before - 1
  /\ aliens[h.ai].type = ALIEN_DEAD
  /\ \A bi \in DOMAIN bullets : bullets[bi] # h.bullet

NoOverlapLeft ==
  \A bi \in DOMAIN bullets : \A ai \in AlienIdx :
    aliens[ai].type # ALIEN_DEAD =>
      LET sp == CurrentFrame(alien_animation, aliens[ai]) IN
        ~ /\ bullets[bi].x < aliens[ai].x + sp.width
          /\ bullets[bi].x + bullet_sprite.width > aliens[ai].x
          /\ bullets[bi].y < aliens[ai].y + sp.height
          /\ bullets[bi].y + bullet_sprite.height > aliens[ai].y

CollisionScoresAndRemoves ==
  /\ \A h \in Hits : HitEffect(h)
  /\ pc = "move" => NoOverlapLeft
  /\ pc = "move" /\ Len(last.hits) > 0 =>
        score = last.hits[Len(last.hits)].score_after
  /\ sprite_overlap_check(bullet_sprite, 50, 200, alien_sprites[2], 48, 198)
  /\ alien_sprites[2] = [width |-> 11, height |-> 8]
  /\ 10 * (4 - ALIEN_TYPE_B) = 20

\* C3 witness: the collision step has just registered a hit on a type B alien.
TypeBHit ==
  /\ pc = "move"
  /\ \E h \in Hits : h.type = ALIEN_TYPE_B /\ h.score_after = h.score_before + 20

\* C4: for an alien that became DEAD in tick k, after j decrement steps since
\* then the death counter is DEATH_FRAMES - j until it reaches 0 at j = 10
\* (tick k+10) and stays 0; the explosion has been drawn in every one of the
\* first 10 frames drawn since (ticks k+1..k+10) and in no other, and from the
\* 11th frame on nothing is drawn for the alien.
DecrementsSinceDeath(ai) ==
  IF pc = "death" THEN since_death[ai] - 1 ELSE since_death[ai]

ExplosionLastsTenFrames ==
  \A ai \in AlienIdx :
    aliens[ai].type = ALIEN_DEAD =>
      /\ death_counters[ai] = DEATH_FRAMES - Min(DecrementsSinceDeath(ai), DEATH_FRAMES)
      /\ explosions[ai] = Min(since_death[ai], DEATH_FRAMES)
      /\ since_death[ai] \in 1..DEATH_FRAMES => drawn[ai] = "death"
      /\ since_death[ai] > DEATH_FRAMES => drawn[ai] = "none"
      /\ death_counters[ai] = 0 <=> DecrementsSinceDeath(ai) >= 10

\* C4 witness: an alien has been DEAD for more than 10 frames: its explosion
\* was drawn 10 times and the last frame drew nothing for it.
ExplosionOver ==
  \E ai \in AlienIdx :
    /\ aliens[ai].type = ALIEN_DEAD
    /\ since_death[ai] > DEATH_FRAMES
    /\ explosions[ai] = DEATH_FRAMES
    /\ death_counters[ai] = 0
    /\ drawn[ai] = "none"

\* C5: a step changes an alien's death counter only if it is the decrement
\* step and the alien is DEAD with a counter > 0, and then by exactly -1; a
\* live alien's counter is 10; the draw step draws nothing for an alien whose
\* counter is 0.
CounterStep ==
  /\ death_counters' =
       IF pc = "death"
       THEN [ai \in AlienIdx |->
               IF aliens[ai].type = ALIEN_DEAD /\ death_counters[ai] > 0
               THEN death_counters[ai] - 1 ELSE death_counters[ai]]
       ELSE death_counters
  /\ \A ai \in AlienIdx :
       aliens[ai].type # ALIEN_DEAD => death_counters[ai] = DEATH_FRAMES
  /\ pc = "draw" /\ pc' = "death" =>
       \A ai \in AlienIdx : death_counters[ai] = 0 <=> drawn'[ai] = "none"

DeathCounterDecrementsOncePerTick == [][CounterStep]_vars

\* C5 witness: after a decrement step, one DEAD alien's counter is part of
\* the way down, another's is 0 and not drawn, and a live alien's is 10.
CountersAtWork ==
  /\ pc = "bullets"
  /\ \E ai \in AlienIdx :
       aliens[ai].type = ALIEN_DEAD /\ death_counters[ai] \in 1..(DEATH_FRAMES - 1)
  /\ \E ai \in AlienIdx :
       aliens[ai].type = ALIEN_DEAD /\ death_counters[ai] = 0 /\ drawn[ai] = "none"
  /\ \E ai \in AlienIdx :
       aliens[ai].type # ALIEN_DEAD /\ death_counters[ai] = DEATH_FRAMES

\* C6: the fire step with a pending fire and a full pool (128 bullets) leaves
\* the pool's size and contents unchanged, and every fire step leaves the
\* fire-pending flag false, so the dropped press is not kept for a later tick.
FullPoolStep ==
  pc = "fire" =>
    /\ fire_pressed' = FALSE
    /\ fire_pressed /\ num_bullets = MAX_BULLETS =>
         num_bullets' = num_bullets /\ bullets' = bullets
    /\ MAX_BULLETS = 128

FireOnFullPoolIsDropped == [][FullPoolStep]_vars

\* C6 witness: the fire step has just run with a pending fire on a full pool.
FireDropped ==
  /\ pc = "poll"
  /\ last.fire = "dropped"
  /\ num_bullets = MAX_BULLETS
  /\ ~fire_pressed

\* C7: the fire step with a pending fire and fewer than 128 bullets appends
\* exactly one bullet, at x = player.x + 5 (the x the movement step of the
\* same tick left), y = player.y + 7 = 39, direction +2, and keeps the other
\* bullets; a fire step without a pending fire adds none and no other step
\* adds a bullet; the flag is set exactly when at least one release was
\* delivered since the last fire step, it is carried unchanged to the fire
\* step of the next tick and cleared there, so any number of releases in one
\* poll gives at most one bullet.
FireStep ==
  /\ (fire_pressed <=> releases > 0)
  /\ pc = "move" => pc' = "fire"
  /\ pc \notin {"fire", "poll"} => fire_pressed' = fire_pressed /\ releases' = releases
  /\ pc # "fire" => num_bullets' <= num_bullets
  /\ pc = "fire" =>
       /\ player' = player
       /\ ~fire_pressed' /\ releases' = 0
       /\ IF releases > 0 /\ num_bullets < MAX_BULLETS
          THEN /\ num_bullets' = num_bullets + 1
               /\ bullets'[num_bullets] = [x |-> player.x + 5, y |-> 39, dir |-> 2]
               /\ player.y + player_sprite.height = 39
               /\ player_sprite.width \div 2 = 5
               /\ \A bi \in 0..(num_bullets - 1) : bullets'[bi] = bullets[bi]
          ELSE num_bullets' = num_bullets /\ bullets' = bullets

PendingFireSpawnsOneBullet == [][FireStep]_vars

\* C7 witness: two or more releases arrived in one poll and the next fire
\* step spawned one bullet, away from the start position.
TwoReleasesOneBullet ==
  /\ pc = "poll"
  /\ last.fire = "spawned"
  /\ last.releases >= 2
  /\ num_bullets = 1
  /\ player.x # InitPlayer.x
  /\ bullets[0] = [x |-> player.x + 5, y |-> 39, dir |-> 2]

\* C8: every bullet of the pool has y in [bullet_height, buffer_height) =
\* [3, 256); every bullet the update step removed for leaving the buffer had
\* advanced to a y outside that range.
BulletsInsideBuffer ==
  /\ \A bi \in DOMAIN bullets :
       bullets[bi].y >= bullet_sprite.height /\ bullets[bi].y < buffer_height
  /\ \A e \in Exits : e.y >= buffer_height \/ e.y < bullet_sprite.height
  /\ bullet_sprite.height = 3 /\ buffer_height = 256

\* C8 witness: the update step has just removed a bullet that advanced from
\* y = 255 to y = 257.
BulletLeftAt257 ==
  /\ pc = "move"
  /\ \E e \in Exits : e.y = 257

\* C9: no step lowers score.
ScoreNeverDecreases == [][score' >= score]_vars

\* C9 witness: score has grown by several hits.
ScoreGrew == score >= 30 /\ pc = "draw"

\* C10: in every step every alien keeps its type or goes from a live type
\* (A, B, C) to DEAD.
TypeStep ==
  \A ai \in AlienIdx :
    \/ aliens'[ai].type = aliens[ai].type
    \/ aliens[ai].type \in LiveTypes /\ aliens'[ai].type = ALIEN_DEAD

AlienTypeOnlyDies == [][TypeStep]_vars

\* C10 witness: an alien is DEAD and has been through later collision steps,
\* next to live aliens of its row.
DeadAmongLive ==
  /\ pc = "move"
  /\ \E ai \in AlienIdx : aliens[ai].type = ALIEN_DEAD /\ since_death[ai] > DEATH_FRAMES
  /\ \E ai \in AlienIdx : aliens[ai].type = ALIEN_TYPE_C

\* C11: for each of the three alien types the animation time grows by one in
\* every tick (in the draw step) and by nothing else, goes back to 0 on
\* reaching 20 and so stays in 0..19; the frame index time / 10 is 0 for the
\* times 0..9 and 1 for the times 10..19, a cycle of 20 ticks; none of this
\* depends on which aliens are alive.
AnimationStep ==
  /\ \A i \in 0..2 :
        /\ alien_animation[i] \in 0..19
        /\ alien_animation[i] \div frame_duration \in {0, 1}
        /\ alien_animation[i] \div frame_duration = 0 <=> alien_animation[i] \in 0..9
        /\ alien_animation'[i] \in 0..19
  /\ alien_animation' =
        IF pc = "draw" /\ pc' = "death"
        THEN [i \in 0..2 |-> (alien_animation[i] + 1) % 20]
        ELSE alien_animation

AnimationTimeCycles == [][AnimationStep]_vars

\* the time of a type has gone round once and aliens of that type are dead
AnimationWrappedAmongDead ==
  /\ pc = "death"
  /\ alien_animation[ALIEN_TYPE_C - 1] = 0
  /\ \E ai \in AlienIdx : InitAliens[ai].type = ALIEN_TYPE_C /\ aliens[ai].type = ALIEN_DEAD

\* C12: as long as the presses and releases of each move key have alternated,
\* starting with neither key held, the direction accumulator is (1 if RIGHT
\* is held, else 0) - (1 if LEFT is held, else 0): it is -1, 0 or 1, and 0
\* when both keys or neither are held, whatever ticks ran between the events.
Held(b) == IF b THEN 1 ELSE 0

MoveDirIsHeldDifference ==
  keys.paired =>
    /\ move_dir = Held(keys.right) - Held(keys.left)
    /\ move_dir \in {-1, 0, 1}
    /\ keys.right = keys.left => move_dir = 0

\* RIGHT was pressed, a tick moved the player, then LEFT was pressed as well
BothHeldAfterATick ==
  /\ keys.paired /\ keys.right /\ keys.left
  /\ pc = "move"
  /\ player.x > InitPlayer.x
  /\ move_dir = 0

\* C13: game_running is only ever cleared, and only inside glfwPollEvents; it
\* is tested at one place, before the draw step.  Once it is cleared, the
\* rest of that poll is all that runs before the loop is left: no draw, no
\* step of the simulation and no further poll follows.  A tick that has
\* started runs its steps in order up to its poll, whatever the flag says.
TickOrder ==
  [s \in {"death", "bullets", "move", "fire"} |->
     IF s = "death" THEN "bullets" ELSE IF s = "bullets" THEN "move"
     ELSE IF s = "move" THEN "fire" ELSE "poll"]

StopStep ==
  /\ game_running' # game_running => pc = "poll" /\ pc' = "poll" /\ ~game_running'
  /\ pc' = "done" => pc = "draw"
  /\ pc = "draw" => (pc' = "done" <=> ~game_running \/ should_close)
  /\ pc = "draw" /\ game_running /\ ~should_close => pc' = "death"
  /\ pc \in DOMAIN TickOrder => pc' = TickOrder[pc]
  /\ pc = "poll" => pc' \in {"poll", "draw"}
  /\ pc # "done"
  /\ ~game_running =>
        /\ pc \in {"poll", "draw"}
        /\ UNCHANGED <<score, aliens, death_counters, num_bullets, bullets, player,
                       alien_animation, drawn, explosions, since_death, polls>>
           \/ (pc = "poll" /\ pc' = "draw" /\
               UNCHANGED <<score, aliens, death_counters, num_bullets, bullets, player,
                           alien_animation, drawn, explosions, since_death>>)

StopFlagEndsTheLoop == [][StopStep]_vars

\* ESCAPE ended a game in progress: the loop is left with a bullet in flight
EscapeStoppedTheGame ==
  /\ pc = "done"
  /\ ~game_running /\ ~should_close
  /\ num_bullets > 0

\* the character with byte b has a glyph: b - 32 is in [0, 65).  (A byte above
\* 127 has none, whether char is signed or not.)
Glyphed(b) == b - 32 >= 0 /\ b - 32 < 65

\* the positions (from 0) of the characters of the text that have a glyph
GlyphedAt == {k \in 0..(Len(canvas.text) - 1) : Glyphed(canvas.text[k + 1])}

\* buffer_draw_text has drawn the glyphs c - 32 of exactly the characters
\* that have one, in the order of the text, each at the x that At gives it
TextDrawnAt(At(_)) ==
  /\ Len(canvas.calls) = Cardinality(GlyphedAt)
  /\ \A i \in 1..Len(canvas.calls) :
        LET call == canvas.calls[i] IN
        /\ call.k \in GlyphedAt
        /\ i > 1 => canvas.calls[i - 1].k < call.k
        /\ call.glyph = canvas.text[call.k + 1] - 32
        /\ call.y = canvas.y
        /\ call.x = At(call.k)

\* C14 (as claimed): draw_text draws glyph c - 32 for each character c with
\* c - 32 in [0, 65) and nothing for the others, which still move the
\* cursor: the k-th character is drawn at x + k * (glyph width + 1) whatever
\* characters came before it.
AtEveryCharacter(k) == canvas.x + k * (text_spritesheet.width + 1)

TextCursorAdvancesOnEveryCharacter ==
  canvas.op = "text" /\ canvas.done => TextDrawnAt(AtEveryCharacter)

\* C14 (amended): draw_text draws glyph c - 32 for each character c with
\* c - 32 in [0, 65); a character without a glyph draws nothing and leaves
\* the cursor where it is: the k-th character is drawn at
\* x + j * (glyph width + 1), j the number of characters before it that have
\* a glyph.
AtEveryGlyph(k) ==
  canvas.x + Cardinality({j \in GlyphedAt : j < k}) * (text_spritesheet.width + 1)

TextCursorAdvancesOnGlyphs ==
  canvas.op = "text" /\ canvas.done => TextDrawnAt(AtEveryGlyph)

\* a text was drawn in which a character without a glyph comes before one
\* with a glyph
GlyphAfterSkippedCharacter ==
  /\ canvas.op = "text" /\ canvas.done
  /\ \E i \in 1..Len(canvas.calls) : canvas.calls[i].k > i - 1

\* the mask bit (xi, yi) of the sprite under test is set and its destination
\* is the pixel (col, row)
MaskBitAt(xi, yi, col, row) ==
  /\ canvas.sprite.data[yi * canvas.sprite.width + xi] # 0
  /\ col = canvas.x + xi
  /\ row = canvas.y + canvas.sprite.height - 1 - yi

MaskBits == (0..(canvas.sprite.width - 1)) \X (0..(canvas.sprite.height - 1))

\* C15: after buffer_draw_sprite the buffer has the pixels it had (no write
\* outside it); a pixel (col, row) of the buffer holds color if it is the
\* destination (x + xi, y + sprite.height - 1 - yi) of a set mask bit, and
\* what it held before otherwise; destinations outside the buffer are skipped.
SpriteDrawnClipped ==
  canvas.op = "sprite" /\ canvas.done =>
    LET w == canvas.buffer.width
        h == canvas.buffer.height
    IN /\ DOMAIN canvas.buffer.data = DOMAIN canvas.before
       /\ DOMAIN canvas.buffer.data = 0..(w * h - 1)
       /\ \A col \in 0..(w - 1), row \in 0..(h - 1) :
             canvas.buffer.data[row * w + col] =
               IF \E b \in MaskBits : MaskBitAt(b[1], b[2], col, row)
               THEN canvas.color ELSE canvas.before[row * w + col]

\* a sprite was drawn over the top right corner of the buffer: one of its
\* set bits lands inside, one beyond the right edge and one above the top
SpriteClippedAtCorner ==
  /\ canvas.op = "sprite" /\ canvas.done
  /\ \E b \in MaskBits, col \in 0..(canvas.buffer.width - 1),
         row \in 0..(canvas.buffer.height - 1) : MaskBitAt(b[1], b[2], col, row)
  /\ \E b \in MaskBits, col \in canvas.buffer.width..(MaxBuf + MaxPos + MaxSprite),
         row \in 0..(canvas.buffer.height - 1) : MaskBitAt(b[1], b[2], col, row)
  /\ \E b \in MaskBits, col \in 0..(canvas.buffer.width - 1),
         row \in canvas.buffer.height..(MaxBuf + MaxPos + MaxSprite) :
         MaskBitAt(b[1], b[2], col, row)

\* the state main has built when the game loop is first entered
Initialized == pc = "draw" /\ polls = 0

\* C16: when the loop is first entered, the alien with index row * 11 + col
\* (5 rows of 11) has type (5 - row) / 2 + 1, that is C in rows 0 and 1, B in
\* rows 2 and 3 and A in row 4; every death counter is 10; there is no
\* bullet; the player is at x = 107, the middle of the 224 columns, with 3
\* lives.
InitialStateAsSpecified ==
  Initialized =>
    /\ DOMAIN aliens = 0..54
    /\ \A row \in 0..4, col \in 0..10 :
          /\ aliens[row * 11 + col].type = (5 - row) \div 2 + 1
          /\ aliens[row * 11 + col].type =
                IF row \in {0, 1} THEN ALIEN_TYPE_C
                ELSE IF row \in {2, 3} THEN ALIEN_TYPE_B ELSE ALIEN_TYPE_A
          /\ death_counters[row * 11 + col] = 10
    /\ DOMAIN death_counters = 0..54
    /\ num_bullets = 0 /\ bullets = <<>>
    /\ player.x = 107 /\ player.life = 3
    /\ 2 * player.x + player_sprite.width \in {buffer_width, buffer_width + 1}

\* the loop is entered with the top row of type A above rows of B and C
LoopEnteredWithThreeTypes ==
  /\ Initialized
  /\ aliens[54].type = ALIEN_TYPE_A
  /\ aliens[22].type = ALIEN_TYPE_B
  /\ aliens[0].type = ALIEN_TYPE_C

\* C17: in every tick each bullet that was in the pool when the bullet step
\* began and is still in it when the step ends has had its y advanced by its
\* direction exactly once, a bullet moved into a freed slot included, whether
\* the slot was freed by an exit from the buffer or by a collision.
EveryBulletAdvancedOnce ==
  \A bi \in DOMAIN last.advanced : last.advanced[bi] = 1

\* C18: in every tick no two hits belong to the same pass of the alien scan,
\* and a hit takes one off the bullet count: a pass makes at most one alien
\* DEAD and decrements the count at most once, although it goes on testing
\* the aliens left against what the slot holds after the hit.
OneHitPerPass ==
  /\ \A i, j \in 1..Len(last.hits) :
        i # j => last.hits[i].pass # last.hits[j].pass
  /\ \A h \in Hits : h.count_after = h.count_before - 1 /\ h.pass >= 1

\* a hit freed a slot below the new count, so the scan went on with another
\* bullet in the slot and live aliens left to test
ScanWentOnWithAnotherBullet ==
  /\ pc = "move"
  /\ \E h \in Hits :
        /\ h.bi < h.count_after
        /\ \E ai \in (h.ai + 1)..(num_aliens - 1) : aliens[ai].type # ALIEN_DEAD

\* C19: every overlap test of a tick reads a bullet slot whose index is below
\* the bullet count at the time of the test: a bullet that a hit has removed,
\* the one in the last slot included, is not tested against further aliens.
EveryTestReadsAnActiveSlot == last.stale = <<>>

\* the frame index 0 or 1 of the sprite drawn for alien ai
DrawnIndex(ai) == IF drawn[ai] = "frame1" THEN 1 ELSE 0

\* the live aliens at the end of a bullet step in which the aliens were
\* scanned: each of them was drawn in this tick and tested in this tick
ScannedAliens ==
  IF pc = "move" /\ last.frames # <<>>
  THEN {ai \in AlienIdx : aliens[ai].type # ALIEN_DEAD} ELSE {}

\* C20 (as claimed): in every tick and for every live alien the frame index
\* the overlap test selects equals the frame index the alien was drawn with
\* in the same tick.
CollisionFrameIsDrawnFrame ==
  \A ai \in ScannedAliens : last.frames[aliens[ai].type] = DrawnIndex(ai)

\* C20 (amended): the overlap test selects the frame by the animation time
\* after this tick's update, the draw by the time before it: the two frame
\* indices are equal except in the ticks whose update takes the time to 10 or
\* back to 0, where the test selects the frame that the next tick draws; the
\* frame tested has the width and height of the frame drawn.
CollisionFrameIsNextDrawnFrame ==
  \A ai \in ScannedAliens :
    LET type == aliens[ai].type
        time == alien_animation[type - 1]
        tested == last.frames[type]
    IN /\ tested = time \div 10
       /\ DrawnIndex(ai) = ((time + 19) % 20) \div 10
       /\ tested = DrawnIndex(ai) <=> time \notin {0, 10}
       /\ alien_sprites[2 * (type - 1) + tested] =
            alien_sprites[2 * (type - 1) + DrawnIndex(ai)]

\* a tick drew a live alien with its first frame and tested it with its second
TestedWithTheOtherFrame ==
  \E ai \in ScannedAliens :
    drawn[ai] = "frame0" /\ last.frames[aliens[ai].type] = 1


\* C21: from every player x in [0, 213] and every accumulator value d in
\* {-1, 0, 1}, the player-movement step sets x to min(max(x + 2*d, 0), 213),
\* the value the arithmetic gives without wrap-around; with d = 0 the
\* position stays; no step of a tick changes the player's y or lives.
Clamped(v) ==
  IF v < 0 THEN 0
  ELSE IF v > buffer_width - player_sprite.width THEN buffer_width - player_sprite.width
  ELSE v

MoveStep ==
  /\ pc = "move" /\ pc' = "fire" =>
        /\ move_dir \in -1..1
        /\ player.x \in 0..213
        /\ player'.x = Clamped(player.x + 2 * move_dir)
        /\ move_dir = 0 => player'.x = player.x
  /\ pc # "move" => player'.x = player.x
  /\ player'.y = player.y
  /\ player'.life = player.life

PlayerMovesByTwoClamped == [][MoveStep]_vars

\* C21 witness: with LEFT held (d = -1) the movement step of the first tick
\* has left the player at the left edge, from x = 0, 1 or 2.
PlayerClampedAtLeftEdge ==
  /\ pc = "fire"
  /\ move_dir = -1
  /\ player.x = 0
  /\ alien_animation[0] = 1


\* C22: every alien has y = 17*row + 128; a live alien of type T has
\* x = 16*col + 20 + (13 - w_T)/2 for the width w_T of its type's sprites, a
\* DEAD alien has x = 16*col + 20; so a live alien never moves, and a hit
\* moves the alien left by (death sprite width - current frame width)/2 and
\* leaves its y alone.
TypeWidth(type) == alien_sprites[2 * (type - 1)].width

OnGrid(ai) ==
  LET col == ai % 11
      row == ai \div 11
      alien == aliens[ai]
  IN /\ alien.y = 17 * row + 128
     /\ alien.type # ALIEN_DEAD =>
          alien.x = 16 * col + 20 + (13 - TypeWidth(alien.type)) \div 2
     /\ alien.type = ALIEN_DEAD => alien.x = 16 * col + 20

AliensStayOnGrid ==
  /\ \A ai \in AlienIdx : OnGrid(ai)
  /\ \A h \in Hits :
        /\ aliens[h.ai].x = h.box.x - (alien_death_sprite.width - h.box.w) \div 2
        /\ aliens[h.ai].y = h.box.y
  /\ alien_death_sprite.width = 13

\* C22 witness: the collision step has just hit a type A alien, which went
\* two pixels to the left.
TypeAHitMovedLeftByTwo ==
  /\ pc = "move"
  /\ \E h \in Hits : h.type = ALIEN_TYPE_A /\ aliens[h.ai].x = h.box.x - 2


\* C23: in every reachable state score is the sum, over the aliens that are
\* DEAD, of 10*(4 - the alien's initial type): every hit is on a live alien,
\* adds that alien's value, and no alien is hit twice; so score is a multiple
\* of 10 and at most 990 = 22*10 + 22*20 + 11*30, the value of all 55 aliens.
AlienValue(ai) == 10 * (4 - InitAliens[ai].type)

\* the value of the aliens among 0..n-1 that are DEAD (all of 0..n-1 if all)
RECURSIVE ValueOfTheDead(_, _)
ValueOfTheDead(n, all) ==
  IF n = 0 THEN 0
  ELSE ValueOfTheDead(n - 1, all)
       + (IF all \/ aliens[n - 1].type = ALIEN_DEAD THEN AlienValue(n - 1) ELSE 0)

ScoreIsValueOfTheDead ==
  /\ score = ValueOfTheDead(num_aliens, FALSE)
  /\ score % 10 = 0
  /\ score <= 990
  /\ ValueOfTheDead(num_aliens, TRUE) = 990
  /\ 22 * 10 + 22 * 20 + 11 * 30 = 990
  /\ \A i \in 1..Len(last.hits) :
        /\ last.hits[i].type \in LiveTypes
        /\ last.hits[i].score_after - last.hits[i].score_before
             = AlienValue(last.hits[i].ai)
        /\ \A j \in 1..Len(last.hits) : i # j => last.hits[i].ai # last.hits[j].ai

\* C23 witness: with the 44 aliens of types C and B dead (660 points), the
\* collision step has just hit an alien of type A and the score is 690.
TypeAHitScoredThirty ==
  /\ pc = "move"
  /\ score = 690
  /\ \E h \in Hits : h.type = ALIEN_TYPE_A /\ h.score_before = 660

====
